---- MODULE Spec2Model ----
(***************************************************************************)
(* Model of library_of_woko/app.py: the persona object Me with its two     *)
(* time-to-live cache entries (stats, books), the statistics selection of  *)
(* get_stats, the tool dispatch of handle_tool_call and the tool loop of   *)
(* chat.  The database (psycopg) and the model service (OpenAI) are the    *)
(* environment: each of their answers is a nondeterministic choice.        *)
(***************************************************************************)
EXTENDS Integers, Sequences, FiniteSets, TLC

VARIABLES
    now,                      \* wall clock, in seconds (datetime.datetime.now())
    store,                    \* rows of the books table
    cached_stats,             \* Me._cached_stats
    stats_cache_timestamp,    \* Me._stats_cache_timestamp
    cached_books,             \* Me._cached_books
    books_cache_timestamp,    \* Me._books_cache_timestamp
    cache_duration_seconds,   \* Me._cache_duration_seconds
    pc,                       \* position of chat: idle, send, tools, done, raised
    messages,                 \* chat's local list `messages`
    response,                 \* chat's local `response` (latest model-service answer)
    results,                  \* handle_tool_call's local list `results`
    raw_results,              \* values the handlers returned in this round, in order
    reply,                    \* the value chat returned
    rounds,                   \* tool-call rounds completed in this turn
    turns,                    \* chat turns started
    event,                    \* what the latest step did (observation only)
    reader                    \* per concurrent turn: its position in a cache read

vars == <<now, store, cached_stats, stats_cache_timestamp, cached_books,
          books_cache_timestamp, cache_duration_seconds, pc, messages,
          response, results, raw_results, reply, rounds, turns, event, reader>>

cacheVars == <<cached_stats, stats_cache_timestamp, cached_books,
               books_cache_timestamp>>

-----------------------------------------------------------------------------
(* Bounds of the model *)

MaxTime == 301      \* the clock stops advancing here
MaxTurns == 2       \* chat turns per behaviour
MaxRounds == 1      \* tool-call rounds per turn (Spec only; LiveSpec has none)
MaxBooks == 1       \* rows in the books table

TickSteps == {300, 301}   \* the clock advances by one of these

(* Program constants *)

CacheDuration == 300      \* self._cache_duration_seconds = 300

\* A timestamp field holding None.  The refresh conditions test the cached
\* value first, so a None timestamp is never subtracted in a single thread.
NoTime == -1

-----------------------------------------------------------------------------
(* Statistics selection: get_stats *)

all_possible_stats ==
    {"in_progress", "completed_books", "completed_short_stories",
     "books_this_year", "short_stories_this_year", "total_books",
     "total_short_stories", "total_all", "median_completion_days_all",
     "median_completion_days_novels", "median_completion_days_this_year"}

default_stats ==
    <<"in_progress", "completed_books", "completed_short_stories",
      "books_this_year", "short_stories_this_year", "total_all",
      "median_completion_days_all", "median_completion_days_novels",
      "median_completion_days_this_year">>

\* A requested_stats argument: absent (None) or a list of names.
NoRequest == [given |-> FALSE, names |-> <<>>]
Request(names) == [given |-> TRUE, names |-> names]

\* Python's `not requested_stats`: None and the empty list are both falsy.
RequestFalsy(requested_stats) ==
    ~requested_stats.given \/ requested_stats.names = <<>>

\* A selection that keeps the unknown names of a request.
selected_stats_unfiltered(requested_stats) ==
    IF RequestFalsy(requested_stats) THEN default_stats ELSE requested_stats.names

\* selected_stats of get_stats (lines 145-156).
selected_stats(requested_stats) ==
    IF RequestFalsy(requested_stats)
    THEN default_stats
    ELSE SelectSeq(requested_stats.names, LAMBDA stat : stat \in all_possible_stats)

\* Keys of a dict built by inserting the names of s in order: a repeated
\* name keeps its first position.
RECURSIVE DictKeys(_)
DictKeys(s) ==
    IF s = <<>> THEN <<>>
    ELSE LET front == DictKeys(SubSeq(s, 1, Len(s) - 1))
             last == s[Len(s)]
         IN IF \E i \in 1..Len(front) : front[i] = last
            THEN front ELSE Append(front, last)

Range(s) == {s[i] : i \in 1..Len(s)}

\* What the database does for one call: "ok" the query yields its row(s),
\* "norow" cur.fetchone() yields None / cur.fetchall() yields no rows,
\* "down" psycopg.connect raises psycopg.Error.
DbOutcomes == {"ok", "norow", "down"}

\* get_stats(requested_stats) under database outcome db.
\*   raised:  a psycopg error left the function (there is no try/except)
\*   keys:    the keys of the returned dict, in order
\*   queried: cur.execute was called
get_stats(requested_stats, db) ==
    LET sel == selected_stats(requested_stats) IN
    IF db = "down"
    THEN [raised |-> TRUE, keys |-> <<>>, queried |-> FALSE]
    ELSE IF ~RequestFalsy(requested_stats) /\ sel = <<>>
    THEN [raised |-> FALSE, keys |-> <<>>, queried |-> FALSE]
    ELSE IF db = "ok"
    THEN [raised |-> FALSE, keys |-> DictKeys(sel), queried |-> TRUE]
    ELSE [raised |-> FALSE, keys |-> <<>>, queried |-> TRUE]

\* get_books() under database outcome db: the number of rows returned.
\* psycopg.Error is caught and turned into the empty list.
get_books(db) ==
    IF db = "ok" THEN [rows |-> store, queried |-> TRUE]
    ELSE IF db = "norow" THEN [rows |-> 0, queried |-> TRUE]
    ELSE [rows |-> 0, queried |-> FALSE]

-----------------------------------------------------------------------------
(* Python values held by the cache.  id tells one object from another:   *)
(* every fetch returns a fresh object, which differs from the object the *)
(* field held before.                                                    *)

NoneStats == [id |-> 0, none |-> TRUE, keys |-> <<>>]
NoneBooks == [id |-> 0, none |-> TRUE, rows |-> 0]

FreshId(old) == IF old.id = 1 THEN 2 ELSE 1

\* `not self._cached_stats`: None and the empty dict are both falsy.
StatsMissing(cached) == cached.none \/ cached.keys = <<>>

\* `self._cached_books is None`
BooksMissing(cached) == cached.none

\* The refresh condition of _get_cached_stats (lines 338-339).
StatsNeedsRefresh(force_refresh, cached, timestamp, current_time, duration) ==
    force_refresh \/ StatsMissing(cached) \/ (current_time - timestamp) > duration

\* The refresh condition of _get_cached_books (lines 349-350).
BooksNeedsRefresh(force_refresh, cached, timestamp, current_time, duration) ==
    force_refresh \/ BooksMissing(cached) \/ (current_time - timestamp) > duration

\* _get_cached_stats(force_refresh) under database outcome db: the fields
\* after the call and what the call returned.
get_cached_stats(force_refresh, db) ==
    LET current_time == now
        fetched == get_stats(NoRequest, db)
        fresh == [id |-> FreshId(cached_stats), none |-> FALSE, keys |-> fetched.keys]
    IN IF StatsNeedsRefresh(force_refresh, cached_stats, stats_cache_timestamp,
                            current_time, cache_duration_seconds)
       THEN IF fetched.raised
            THEN [raised |-> TRUE, value |-> cached_stats,
                  timestamp |-> stats_cache_timestamp, ret |-> NoneStats,
                  fetches |-> 1, queries |-> 0]
            ELSE [raised |-> FALSE, value |-> fresh, timestamp |-> current_time,
                  ret |-> fresh, fetches |-> 1,
                  queries |-> IF fetched.queried THEN 1 ELSE 0]
       ELSE [raised |-> FALSE, value |-> cached_stats,
             timestamp |-> stats_cache_timestamp, ret |-> cached_stats,
             fetches |-> 0, queries |-> 0]

\* _get_cached_books(force_refresh) under database outcome db.
get_cached_books(force_refresh, db) ==
    LET current_time == now
        cache_duration == cache_duration_seconds
        fetched == get_books(db)
        fresh == [id |-> FreshId(cached_books), none |-> FALSE, rows |-> fetched.rows]
    IN IF BooksNeedsRefresh(force_refresh, cached_books, books_cache_timestamp,
                            current_time, cache_duration)
       THEN [raised |-> FALSE, value |-> fresh, timestamp |-> current_time,
             ret |-> fresh, fetches |-> 1,
             queries |-> IF fetched.queried THEN 1 ELSE 0]
       ELSE [raised |-> FALSE, value |-> cached_books,
             timestamp |-> books_cache_timestamp, ret |-> cached_books,
             fetches |-> 0, queries |-> 0]

\* The fields a _get_cached_stats call r leaves behind.
ApplyStatsRead(r) ==
    /\ cached_stats' = r.value
    /\ stats_cache_timestamp' = r.timestamp
    /\ UNCHANGED <<cached_books, books_cache_timestamp>>

\* A books read that stamps both entries (one timestamp shared by the two).
ApplyBooksReadSharedStamp(r) ==
    /\ cached_books' = r.value
    /\ books_cache_timestamp' = r.timestamp
    /\ stats_cache_timestamp' = r.timestamp
    /\ UNCHANGED cached_stats

\* The fields a _get_cached_books call r leaves behind.
ApplyBooksRead(r) ==
    /\ cached_books' = r.value
    /\ books_cache_timestamp' = r.timestamp
    /\ UNCHANGED <<cached_stats, stats_cache_timestamp>>

\* What a step observed of a cache read r: which entry, whether the call
\* raised, the object it returned, the underlying fetches and queries made.
NoReadSeen == [entry |-> "none", raised |-> FALSE, ret_id |-> 0, ret_none |-> TRUE,
               fetches |-> 0, queries |-> 0]
ReadSeen(entry, r) ==
    [entry |-> entry, raised |-> r.raised, ret_id |-> r.ret.id,
     ret_none |-> r.ret.none, fetches |-> r.fetches, queries |-> r.queries]

-----------------------------------------------------------------------------
(* Python values returned by the tool handlers, and their texts.         *)
(* A value is [type, kind, items]: its Python type, which text or object *)
(* it is, and the entries it shows.                                      *)

EmptyDict == [type |-> "dict", kind |-> "empty", items |-> <<>>]
Str(kind, items) == [type |-> "str", kind |-> kind, items |-> items]
List(kind, items) == [type |-> "list", kind |-> kind, items |-> items]

\* create_ai_prompt_from_stats(stats_data): the sentinel for a falsy
\* argument, else one labelled line per key, in the dict's order.
create_ai_prompt_from_stats(stats_data) ==
    IF StatsMissing(stats_data)
    THEN Str("no_stats_sentinel", <<>>)
    ELSE Str("stats_text", stats_data.keys)

\* The rows of a books result, one entry per row.
Rows(n) == [i \in 1..n |-> "book"]

\* create_ai_prompt_from_books(books_data): the sentinel for a falsy
\* argument, else one block per row.
create_ai_prompt_from_books(books_data) ==
    IF books_data.none \/ books_data.rows = 0
    THEN Str("no_books_sentinel", <<>>)
    ELSE Str("books_text", Rows(books_data.rows))

\* json.dumps(result): a dict becomes a JSON object, a str a quoted JSON
\* string, a list a JSON array.
JsonDumps(result) ==
    [enc |-> "json",
     lit |-> CASE result.type = "dict" -> "object"
               [] result.type = "str" -> "string"
               [] result.type = "list" -> "array",
     kind |-> result.kind,
     items |-> result.items]

\* Plain text that is not the output of json.dumps.
Text(kind, items) == [enc |-> "text", lit |-> "none", kind |-> kind, items |-> items]
NoContent == Text("None", <<>>)

-----------------------------------------------------------------------------
(* Tool calls as the model service sends them *)

ArgsEmpty == "{}"
ArgsRequest == "{\"requested_stats\": [\"total_books\", \"bogus\"]}"
ArgsBook == "{\"title\": \"Dracula\", \"author\": \"Bram Stoker\", \"genre\": \"Gothic\"}"
ArgsNoTitle == "{\"author\": \"Bram Stoker\", \"genre\": \"Gothic\"}"
ArgsMalformed == "{\"title\": "
ArgsNaN == "{\"requested_stats\": NaN}"

\* The float nan that json.loads makes of the literal NaN: truthy and not a
\* list; `names` holds the literal it came from.
FloatNaN == [given |-> TRUE, names |-> <<"NaN">>]

\* json.loads(tool_call.function.arguments) on the texts above: ok is FALSE
\* when json.JSONDecodeError is raised; else keys are the object's keys and
\* requested_stats its "requested_stats" entry.  With its default
\* parse_constant, json.loads accepts the literals NaN, Infinity and
\* -Infinity, which the JSON grammar does not have.
JsonLoads(text) ==
    CASE text = ArgsEmpty ->
           [ok |-> TRUE, keys |-> {}, requested_stats |-> NoRequest]
      [] text = ArgsRequest ->
           [ok |-> TRUE, keys |-> {"requested_stats"},
            requested_stats |-> Request(<<"total_books", "bogus">>)]
      [] text = ArgsBook ->
           [ok |-> TRUE, keys |-> {"title", "author", "genre"},
            requested_stats |-> NoRequest]
      [] text = ArgsNoTitle ->
           [ok |-> TRUE, keys |-> {"author", "genre"}, requested_stats |-> NoRequest]
      [] text = ArgsNaN ->
           [ok |-> TRUE, keys |-> {"requested_stats"}, requested_stats |-> FloatNaN]
      [] OTHER ->
           [ok |-> FALSE, keys |-> {}, requested_stats |-> NoRequest]

\* The three tools of the schema `tools` (lines 308-312).
SchemaTools == {"add_book", "get_stats_tool", "get_books_tool"}

\* Callable attributes of a Me object: hasattr(self, n) and callable(getattr(self, n)).
MeMethods == {"get_stats_tool", "get_books_tool", "handle_tool_call",
              "system_prompt", "chat", "_get_cached_stats", "_get_cached_books"}

\* Names bound in the module's globals() (there is no add_book among them).
ModuleGlobals == {"get_books", "get_stats", "create_ai_prompt_from_books",
                  "create_ai_prompt_from_stats", "add_book_json",
                  "get_stats_tool_json", "get_books_tool_json", "tools", "Me",
                  "AddBookInput"}

\* The (name, arguments) pairs the model service asks for in this model.
ToolCallChoices ==
    { <<"add_book", ArgsBook>>, <<"add_book", ArgsNoTitle>>,
      <<"get_stats_tool", ArgsEmpty>>, <<"get_stats_tool", ArgsRequest>>,
      <<"get_books_tool", ArgsEmpty>>, <<"get_books_tool", ArgsMalformed>>,
      <<"get_books", ArgsEmpty>>, <<"frobnicate", ArgsEmpty>>,
      <<"get_stats_tool", ArgsNaN>> }

\* Those it asks for two at a time, in this order.
PairChoices ==
    { << <<"get_stats_tool", ArgsEmpty>>, <<"get_stats_tool", ArgsRequest>> >>,
      << <<"get_books_tool", ArgsEmpty>>, <<"get_books_tool", ArgsEmpty>> >>,
      << <<"get_books_tool", ArgsEmpty>>, <<"get_stats_tool", ArgsEmpty>> >>,
      << <<"frobnicate", ArgsEmpty>>, <<"get_books_tool", ArgsMalformed>> >>,
      << <<"get_books_tool", ArgsEmpty>>, <<"get_stats_tool", ArgsMalformed>> >> }

\* Tools that touch neither the cache nor the database.
IdleChoices == { <<"add_book", ArgsBook>>, <<"frobnicate", ArgsEmpty>> }

ToolCall(id, choice) == [id |-> id, name |-> choice[1], arguments |-> choice[2]]

\* The tool_calls lists of one response: one call, or two; ids are fresh.
ToolCallLists(base, singles, pairs) ==
    { <<ToolCall(base + 1, c)>> : c \in singles }
    \cup { <<ToolCall(base + 1, p[1]), ToolCall(base + 2, p[2])>> : p \in pairs }

-----------------------------------------------------------------------------
(* handle_tool_call: one iteration of its loop *)

\* Me.get_stats_tool(requested_stats): the cache read it makes and the text
\* it returns.  requested_stats is not used by the body.
get_stats_tool(requested_stats, db) ==
    LET stats == get_cached_stats(FALSE, db) IN
    [raised |-> stats.raised,
     result |-> create_ai_prompt_from_stats(stats.ret),
     effect |-> "stats_read", ran |-> "get_stats_tool"]

\* Me.get_books_tool()
get_books_tool(db) ==
    LET books == get_cached_books(FALSE, db) IN
    [raised |-> FALSE,
     result |-> create_ai_prompt_from_books(books.ret),
     effect |-> "books_read", ran |-> "get_books_tool"]

\* The exception outcome of one iteration.
Raised == [raised |-> TRUE, result |-> EmptyDict, effect |-> "none", ran |-> "none"]

\* Lines 365-371: the handler found for tool_name and the result of calling
\* it with **arguments.  A keyword the handler does not take is a TypeError.
\* Of the bound names, the handlers of get_stats_tool, get_books_tool and
\* get_books are modelled; the model service asks for no other bound name.
CallTool(tool_name, arguments, db) ==
    IF tool_name \in MeMethods
    THEN CASE tool_name = "get_stats_tool" ->
                IF arguments.keys \subseteq {"requested_stats"}
                THEN get_stats_tool(arguments.requested_stats, db)
                ELSE Raised
           [] tool_name = "get_books_tool" ->
                IF arguments.keys = {} THEN get_books_tool(db) ELSE Raised
           [] OTHER -> Raised
    ELSE IF tool_name \in ModuleGlobals
    THEN CASE tool_name = "get_books" ->
                IF arguments.keys = {}
                THEN [raised |-> FALSE,
                      result |-> List("rows", Rows(get_books(db).rows)),
                      effect |-> "books_fetch", ran |-> "get_books"]
                ELSE Raised
           [] OTHER -> Raised
    ELSE [raised |-> FALSE, result |-> EmptyDict, effect |-> "none", ran |-> "none"]

\* An iteration that answers arguments it cannot parse with the empty
\* result instead of raising.
HandleOneSkippingUnparsed(tool_call, db) ==
    LET arguments == JsonLoads(tool_call.arguments) IN
    IF ~arguments.ok
    THEN [raised |-> FALSE, result |-> EmptyDict, effect |-> "none", ran |-> "none"]
    ELSE CallTool(tool_call.name, arguments, db)

\* Lines 359-371 for one tool_call: parse the arguments, dispatch.
HandleOne(tool_call, db) ==
    LET arguments == JsonLoads(tool_call.arguments) IN
    IF ~arguments.ok THEN Raised
    ELSE CallTool(tool_call.name, arguments, db)

\* Line 374: the message appended to results for one call.
ToolMessage(tool_call, result) ==
    [role |-> "tool", content |-> JsonDumps(result),
     tool_call_id |-> tool_call.id, tool_calls |-> <<>>]

-----------------------------------------------------------------------------
(* The model service *)

NoMessage == [role |-> "none", content |-> NoContent, tool_call_id |-> 0, tool_calls |-> <<>>]
NoResponse == [finish_reason |-> "none", message |-> NoMessage]

AssistantMessage(content, tool_calls) ==
    [role |-> "assistant", content |-> content, tool_call_id |-> 0,
     tool_calls |-> tool_calls]

\* Answers that end the loop: finish_reason is not "tool_calls".  An answer
\* cut off by the token limit may still carry a tool call.
FinalResponses(base) ==
    { [finish_reason |-> "stop",
       message |-> AssistantMessage(Text("assistant", <<c>>), <<>>)]
      : c \in {"reply_a"} }
    \cup
    { [finish_reason |-> "length",
       message |-> AssistantMessage(Text("assistant", <<"reply_cut">>),
                     <<ToolCall(base + 1, <<"get_books_tool", ArgsEmpty>>)>>)] }

\* Answers that ask for tools.
ToolResponses(base, singles, pairs) ==
    { [finish_reason |-> "tool_calls", message |-> AssistantMessage(NoContent, tc)]
      : tc \in ToolCallLists(base, singles, pairs) }

\* A loop that branches on the presence of tool calls instead.
WantsToolsByCalls(resp) == resp.message.tool_calls # <<>>

\* Line 427: the branch condition of the loop.
WantsTools(resp) == resp.finish_reason = "tool_calls"

-----------------------------------------------------------------------------
(* chat *)

UserMessage(text) ==
    [role |-> "user", content |-> Text("user", <<text>>), tool_call_id |-> 0,
     tool_calls |-> <<>>]

\* Me.system_prompt() for the stats dict the cache returned: the statistics
\* block is left out when the dict is falsy.
SystemMessage(stats_data_dict) ==
    [role |-> "system",
     content |-> Text("system_prompt",
                      IF StatsMissing(stats_data_dict) THEN <<>>
                      ELSE create_ai_prompt_from_stats(stats_data_dict).items),
     tool_call_id |-> 0, tool_calls |-> <<>>]

Histories ==
    { <<UserMessage("earlier"),
        AssistantMessage(Text("assistant", <<"earlier_reply">>), <<>>)>> }

UserTexts == {"hello"}

\* The observation a step leaves in `event`.
\*   op: the action; name, arguments: the tool call dispatched; db: what the
\*   database did; raised, result, ran: whether an exception left the step,
\*   the value the handler returned, the handler that ran; read: the cache
\*   read made; requested_stats, stats_out: a direct get_stats call.
NoStatsOut == [raised |-> FALSE, keys |-> <<>>, queried |-> FALSE]

Event(op, name, arguments, db, out, read) ==
    [op |-> op, name |-> name, arguments |-> arguments, db |-> db,
     raised |-> out.raised, result |-> out.result, ran |-> out.ran, read |-> read,
     requested_stats |-> NoRequest, stats_out |-> NoStatsOut]

NoOutcome == [raised |-> FALSE, result |-> EmptyDict, effect |-> "none", ran |-> "none"]

PlainEvent(op) == Event(op, "none", ArgsEmpty, "ok", NoOutcome, NoReadSeen)

\* The chat turns that may run at the same time against one Me object.
Turns == {1, 2}

\* A turn that is not inside a cache read: entry is the entry being read,
\* current_time the read's local of that name.
IdleReader == [pc |-> "idle", entry |-> "none", current_time |-> 0]
NoReaders == [t \in Turns |-> IdleReader]

Init ==
    /\ now = 0
    /\ store = MaxBooks
    /\ cached_stats = NoneStats
    /\ stats_cache_timestamp = NoTime
    /\ cached_books = NoneBooks
    /\ books_cache_timestamp = NoTime
    /\ cache_duration_seconds = CacheDuration
    /\ pc = "idle"
    /\ messages = <<>>
    /\ response = NoResponse
    /\ results = <<>>
    /\ raw_results = <<>>
    /\ reply = NoContent
    /\ rounds = 0
    /\ turns = 0
    /\ event = PlainEvent("init")
    /\ reader = NoReaders

\* Time passes.  The clock is read by the cache reads alone, so time that
\* passes while the model service is answering is left to pass after it.
Tick ==
    /\ pc # "send"
    /\ \E d \in TickSteps : now + d <= MaxTime /\ now' = now + d
    /\ event' = PlainEvent("tick")
    /\ UNCHANGED <<store, cacheVars, cache_duration_seconds, pc, messages, response,
                   results, raw_results, reply, rounds, turns, reader>>

\* Line 422: chat(message, history) builds `messages`; system_prompt() reads
\* the stats cache and may let a database error out.
ChatStart ==
    /\ pc \in {"idle", "done", "raised"}
    /\ turns < MaxTurns
    /\ \E message \in UserTexts, history \in Histories, db \in DbOutcomes :
         LET stats == get_cached_stats(FALSE, db) IN
         /\ ApplyStatsRead(stats)
         /\ event' = Event("chat_start", "none", ArgsEmpty, db,
                           [NoOutcome EXCEPT !.raised = stats.raised],
                           ReadSeen("stats", stats))
         /\ IF stats.raised
            THEN pc' = "raised" /\ messages' = <<>>
            ELSE /\ pc' = "send"
                 /\ messages' = <<SystemMessage(stats.ret)>> \o history
                                  \o <<UserMessage(message)>>
    /\ turns' = turns + 1
    /\ response' = NoResponse
    /\ results' = <<>>
    /\ raw_results' = <<>>
    /\ reply' = NoContent
    /\ rounds' = 0
    /\ UNCHANGED <<now, store, cache_duration_seconds, reader>>

\* Lines 426-427 and 433-435: the model service answers resp; an answer
\* that asks for tools starts handle_tool_call, any other ends chat.
CreateWith(resp) ==
    /\ pc = "send"
    /\ response' = resp
    /\ results' = <<>>
    /\ raw_results' = <<>>
    /\ event' = PlainEvent("create")
    /\ IF WantsTools(resp)
       THEN pc' = "tools" /\ reply' = reply
       ELSE pc' = "done" /\ reply' = resp.message.content
    /\ UNCHANGED <<now, store, cacheVars, cache_duration_seconds, messages,
                   rounds, turns, reader>>

\* The model service answers; it asks for tools in at most MaxRounds rounds.
Create ==
    \E resp \in FinalResponses(Len(messages))
                \cup (IF rounds < MaxRounds
                      THEN ToolResponses(Len(messages), ToolCallChoices, PairChoices)
                      ELSE {}) :
        CreateWith(resp)

\* What a step observed of the cache while running a handler.
SeenBy(out, db) ==
    CASE out.effect = "stats_read" -> ReadSeen("stats", get_cached_stats(FALSE, db))
      [] out.effect = "books_read" -> ReadSeen("books", get_cached_books(FALSE, db))
      [] out.effect = "books_fetch" ->
           [entry |-> "get_books", raised |-> FALSE, ret_id |-> 0, ret_none |-> TRUE,
            fetches |-> 1, queries |-> IF get_books(db).queried THEN 1 ELSE 0]
      [] OTHER -> NoReadSeen

\* Lines 358-374: one iteration of handle_tool_call's loop, for the next
\* tool call of the response; an exception leaves handle_tool_call and chat.
Dispatch ==
    /\ pc = "tools"
    /\ Len(results) < Len(response.message.tool_calls)
    /\ \E db \in DbOutcomes :
         LET tool_call == response.message.tool_calls[Len(results) + 1]
             out == HandleOne(tool_call, db)
         IN /\ CASE out.effect = "stats_read" ->
                      ApplyStatsRead(get_cached_stats(FALSE, db))
                 [] out.effect = "books_read" ->
                      ApplyBooksRead(get_cached_books(FALSE, db))
                 [] OTHER -> UNCHANGED cacheVars
            /\ event' = Event("dispatch", tool_call.name, tool_call.arguments, db, out,
                              SeenBy(out, db))
            /\ IF out.raised
               THEN pc' = "raised" /\ UNCHANGED <<results, raw_results>>
               ELSE /\ pc' = "tools"
                    /\ results' = Append(results, ToolMessage(tool_call, out.result))
                    /\ raw_results' = Append(raw_results, out.result)
    /\ UNCHANGED <<now, store, cache_duration_seconds, messages, response, reply,
                   rounds, turns, reader>>

\* A loop that appends the results before the assistant's message.
ExtendedResultsFirst(msgs, message, tool_results) == (msgs \o tool_results) \o <<message>>

\* Lines 431-432: messages.append(message); messages.extend(results).
Extended(msgs, message, tool_results) == (msgs \o <<message>>) \o tool_results

\* Lines 375 and 431-432: handle_tool_call returns results; chat appends the
\* assistant's message, then the results, and loops.
ExtendConversation ==
    /\ pc = "tools"
    /\ Len(results) = Len(response.message.tool_calls)
    /\ rounds < MaxRounds
    /\ messages' = Extended(messages, response.message, results)
    /\ rounds' = rounds + 1
    /\ pc' = "send"
    /\ event' = PlainEvent("extend")
    /\ UNCHANGED <<now, store, cacheVars, cache_duration_seconds, response, results,
                   raw_results, reply, turns, reader>>

Next == Tick \/ ChatStart \/ Create \/ Dispatch \/ ExtendConversation

Spec == Init /\ [][Next]_vars

-----------------------------------------------------------------------------
(* The loop without a bound on its rounds.  The model service asks for    *)
(* tools that touch neither the cache nor the database; past MaxRounds    *)
(* rounds the conversation is no longer recorded (the loop's control does *)
(* not read it).  One thread runs chat and the model service always       *)
(* answers, so the loop's next step is always taken.                      *)

LiveCreate ==
    \E resp \in FinalResponses(Len(messages))
                \cup ToolResponses(Len(messages), IdleChoices, {}) :
        CreateWith(resp)

ExtendUnrecorded ==
    /\ pc = "tools"
    /\ Len(results) = Len(response.message.tool_calls)
    /\ rounds >= MaxRounds
    /\ pc' = "send"
    /\ event' = PlainEvent("extend")
    /\ UNCHANGED <<now, store, cacheVars, cache_duration_seconds, messages, response,
                   results, raw_results, reply, rounds, turns, reader>>

LoopStep == LiveCreate \/ Dispatch \/ ExtendConversation \/ ExtendUnrecorded

LiveNext == Tick \/ ChatStart \/ LoopStep

LiveSpec == Init /\ [][LiveNext]_vars /\ WF_vars(LoopStep)

-----------------------------------------------------------------------------
(* get_stats as a function of its request: the request is drawn first,   *)
(* the call is made under each database outcome.                         *)

MaxRequest == 2     \* names in one requested_stats list

SampleNames == {"total_books", "in_progress", "median_completion_days_all",
                "bogus", "title"}

Requests ==
    {NoRequest} \cup
    UNION { { Request(names) : names \in [1..n -> SampleNames] } : n \in 0..MaxRequest }

StatsInit ==
    /\ now = 0
    /\ store = MaxBooks
    /\ cached_stats = NoneStats
    /\ stats_cache_timestamp = NoTime
    /\ cached_books = NoneBooks
    /\ books_cache_timestamp = NoTime
    /\ cache_duration_seconds = CacheDuration
    /\ pc = "idle"
    /\ messages = <<>>
    /\ response = NoResponse
    /\ results = <<>>
    /\ raw_results = <<>>
    /\ reply = NoContent
    /\ rounds = 0
    /\ turns = 0
    /\ \E r \in Requests : event = [PlainEvent("request") EXCEPT !.requested_stats = r]
    /\ reader = NoReaders

CallGetStats ==
    /\ event.op = "request"
    /\ \E db \in DbOutcomes :
         event' = [event EXCEPT !.op = "get_stats", !.db = db,
                                !.raised = get_stats(event.requested_stats, db).raised,
                                !.stats_out = get_stats(event.requested_stats, db)]
    /\ UNCHANGED <<now, store, cacheVars, cache_duration_seconds, pc, messages,
                   response, results, raw_results, reply, rounds, turns, reader>>

StatsNext == CallGetStats

StatsSpec == StatsInit /\ [][StatsNext]_vars

-----------------------------------------------------------------------------
(* Two chat turns at once against one Me object.  chat runs on a worker   *)
(* thread per turn and the interpreter may switch threads between any two *)
(* field accesses, so a cache read is taken one field access at a time.   *)
(* Each turn makes cache reads, of either entry, one after another (the   *)
(* reads of system_prompt, get_stats_tool and get_books_tool).            *)

Entries == {"stats", "books"}

\* The entry's value field is falsy (stats) / None (books): lines 338, 349.
EntryMissing(entry) ==
    IF entry = "stats" THEN StatsMissing(cached_stats) ELSE BooksMissing(cached_books)

\* The entry's timestamp field.
EntryTimestamp(entry) ==
    IF entry = "stats" THEN stats_cache_timestamp ELSE books_cache_timestamp

RaceFrame ==
    /\ event' = PlainEvent("read")
    /\ UNCHANGED <<now, store, cache_duration_seconds, pc, messages, response,
                   results, raw_results, reply, rounds, turns>>

\* Lines 337, 346: a read starts and takes the current time.
ReadBegin(t) ==
    /\ reader[t].pc \in {"idle", "type_error", "db_error"}
    /\ \E entry \in Entries :
         reader' = [reader EXCEPT ![t] = [pc |-> "test", entry |-> entry,
                                          current_time |-> now]]
    /\ UNCHANGED cacheVars
    /\ RaceFrame

\* Lines 338, 349: `not self._cached_stats` / `self._cached_books is None`
\* (force_refresh is False); a missing value goes to the refresh without
\* reading the timestamp.
TestValue(t) ==
    /\ reader[t].pc = "test"
    /\ reader' = [reader EXCEPT ![t].pc =
                    IF EntryMissing(reader[t].entry) THEN "fetch" ELSE "compare"]
    /\ UNCHANGED cacheVars
    /\ RaceFrame

\* Lines 339, 350: (current_time - timestamp).total_seconds() > duration.
\* Subtracting None from a datetime raises TypeError, which leaves the read
\* and the turn.
Compare(t) ==
    /\ reader[t].pc = "compare"
    /\ LET timestamp == EntryTimestamp(reader[t].entry) IN
       reader' = [reader EXCEPT ![t].pc =
                    IF timestamp = NoTime THEN "type_error"
                    ELSE IF reader[t].current_time - timestamp > cache_duration_seconds
                    THEN "fetch" ELSE "return"]
    /\ UNCHANGED cacheVars
    /\ RaceFrame

\* Lines 341, 352: the value field is assigned the fetched object; a
\* database error leaves get_stats, the read and the turn.
FetchStore(t) ==
    /\ reader[t].pc = "fetch"
    /\ \E db \in DbOutcomes :
         IF reader[t].entry = "stats"
         THEN LET fetched == get_stats(NoRequest, db) IN
              IF fetched.raised
              THEN /\ reader' = [reader EXCEPT ![t].pc = "db_error"]
                   /\ UNCHANGED cacheVars
              ELSE /\ cached_stats' = [id |-> FreshId(cached_stats), none |-> FALSE,
                                       keys |-> fetched.keys]
                   /\ reader' = [reader EXCEPT ![t].pc = "stamp"]
                   /\ UNCHANGED <<stats_cache_timestamp, cached_books,
                                  books_cache_timestamp>>
         ELSE /\ cached_books' = [id |-> FreshId(cached_books), none |-> FALSE,
                                  rows |-> get_books(db).rows]
              /\ reader' = [reader EXCEPT ![t].pc = "stamp"]
              /\ UNCHANGED <<cached_stats, stats_cache_timestamp,
                             books_cache_timestamp>>
    /\ RaceFrame

\* A refresh that leaves out the assignment of the timestamp.
StampStepLeftOut(t) ==
    /\ reader[t].pc = "stamp"
    /\ reader' = [reader EXCEPT ![t].pc = "return"]
    /\ UNCHANGED cacheVars
    /\ RaceFrame

\* Lines 342, 353: the timestamp field is assigned current_time.
StampStep(t) ==
    /\ reader[t].pc = "stamp"
    /\ IF reader[t].entry = "stats"
       THEN /\ stats_cache_timestamp' = reader[t].current_time
            /\ UNCHANGED <<cached_stats, cached_books, books_cache_timestamp>>
       ELSE /\ books_cache_timestamp' = reader[t].current_time
            /\ UNCHANGED <<cached_stats, stats_cache_timestamp, cached_books>>
    /\ reader' = [reader EXCEPT ![t].pc = "return"]
    /\ RaceFrame

\* Lines 343, 354: the read returns the value field.
ReadReturn(t) ==
    /\ reader[t].pc = "return"
    /\ reader' = [reader EXCEPT ![t] = IdleReader]
    /\ UNCHANGED cacheVars
    /\ RaceFrame

RaceNext ==
    \/ Tick
    \/ \E t \in Turns : ReadBegin(t)
    \/ \E t \in Turns : TestValue(t)
    \/ \E t \in Turns : Compare(t)
    \/ \E t \in Turns : FetchStore(t)
    \/ \E t \in Turns : StampStep(t)
    \/ \E t \in Turns : ReadReturn(t)

RaceSpec == Init /\ [][RaceNext]_vars

-----------------------------------------------------------------------------
(* Claims about the cache *)

\* The step just taken made a read of the given cache entry
\* (force_refresh is FALSE in every read the program makes).
ReadsStats == event'.read.entry = "stats"
ReadsBooks == event'.read.entry = "books"

\* C1: a stats read made no more than 300 seconds after the fetch timestamp
\* of an earlier read returns the object that read returned (the object the
\* entry holds) and does not call get_stats, whatever the value is - the
\* empty mapping included.
C1_StatsReadWithinTtlIsCached ==
    [][ (ReadsStats /\ ~cached_stats.none
           /\ now - stats_cache_timestamp <= CacheDuration)
        => /\ event'.read.fetches = 0
           /\ ~event'.read.raised
           /\ ~event'.read.ret_none
           /\ event'.read.ret_id = cached_stats.id ]_vars

\* The state C1 fails from: the entry holds an empty mapping fetched less
\* than 300 seconds ago.
C1_EmptyMappingCached ==
    /\ ~cached_stats.none
    /\ cached_stats.keys = <<>>
    /\ now - stats_cache_timestamp <= CacheDuration

\* C1 for the values that are not empty mappings (holds).
StatsReadWithinTtlIsCachedUnlessEmpty ==
    [][ (ReadsStats /\ ~cached_stats.none /\ cached_stats.keys # <<>>
           /\ now - stats_cache_timestamp <= CacheDuration)
        => /\ event'.read.fetches = 0
           /\ ~event'.read.raised
           /\ ~event'.read.ret_none
           /\ event'.read.ret_id = cached_stats.id
           /\ cached_stats' = cached_stats ]_vars

\* C2, books entry: a read made more than 300 seconds after the entry's
\* fetch timestamp calls get_books exactly once, stores the new value with
\* the current time and returns it; a read within 300 seconds of the
\* entry's timestamp does not fetch.
BooksExpiredReadRefreshesOnce ==
    [][ /\ (ReadsBooks /\ ~cached_books.none
              /\ now - books_cache_timestamp > CacheDuration)
           => /\ event'.read.fetches = 1
              /\ ~event'.read.raised
              /\ books_cache_timestamp' = now
              /\ ~cached_books'.none
              /\ cached_books'.id # cached_books.id
              /\ event'.read.ret_id = cached_books'.id
              /\ ~event'.read.ret_none
        /\ (ReadsBooks /\ ~cached_books.none
              /\ now - books_cache_timestamp <= CacheDuration)
           => event'.read.fetches = 0 ]_vars

\* C2, stats entry: the same of get_stats.
StatsExpiredReadRefreshesOnce ==
    [][ /\ (ReadsStats /\ ~cached_stats.none
              /\ now - stats_cache_timestamp > CacheDuration)
           => /\ event'.read.fetches = 1
              /\ ~event'.read.raised
              /\ stats_cache_timestamp' = now
              /\ ~cached_stats'.none
              /\ cached_stats'.id # cached_stats.id
              /\ event'.read.ret_id = cached_stats'.id
              /\ ~event'.read.ret_none
        /\ (ReadsStats /\ ~cached_stats.none
              /\ now - stats_cache_timestamp <= CacheDuration)
           => event'.read.fetches = 0 ]_vars

\* C2: for both entries, a read made more than 300 seconds after the
\* entry's fetch timestamp fetches exactly once, stores the new value with
\* the current time and returns it, and a following read within 300 seconds
\* of the new timestamp does not fetch again.
C2_ExpiredReadRefreshesOnce ==
    BooksExpiredReadRefreshesOnce /\ StatsExpiredReadRefreshesOnce

-----------------------------------------------------------------------------
(* Claims about the tool loop *)

\* C3: whatever the model service answers, a chat turn that has reached the
\* loop eventually returns a reply.
C3_ChatEventuallyReturns == (pc = "send") ~> (pc = "done")

AsksForTools == response.finish_reason = "tool_calls"

\* C4: a tool_calls answer is never the reply and always leads to another
\* model-service call, so a turn never ends (returned or raised) on one;
\* the first other answer ends the loop, its content is the reply and no
\* tool is dispatched for it.
C4_ToolCallsAnswerAlwaysLeadsToNextCall ==
    /\ pc \in {"done", "raised"} => ~AsksForTools
    /\ pc = "done" => reply = response.message.content
    /\ pc = "tools" => AsksForTools

\* C4 as amended: a tool_calls answer is never the reply and leads to
\* another model-service call unless dispatching one of its tool calls
\* raises, in which case chat raises; the first other answer ends the loop,
\* its content is the reply and no tool is dispatched for it.
C4_ToolCallsAnswerLeadsToNextCallUnlessRaised ==
    /\ [](pc = "done" => (~AsksForTools /\ reply = response.message.content))
    /\ [](pc = "tools" => /\ AsksForTools
                           /\ Len(results) <= Len(response.message.tool_calls)
                           /\ rounds < MaxRounds)
    /\ [](pc = "send" => ENABLED Create)
    /\ [][ /\ pc = "tools"
              => \/ pc' = "tools" /\ event'.op = "dispatch" /\ ~event'.raised
                 \/ pc' = "send" /\ event'.op = "extend"
                 \/ pc' = "raised" /\ event'.op = "dispatch" /\ event'.raised
                 \/ event'.op = "tick" /\ pc' = pc
           /\ event'.op = "create"
              => IF response'.finish_reason = "tool_calls"
                 THEN pc' = "tools"
                 ELSE /\ pc' = "done"
                      /\ reply' = response'.message.content
                      /\ UNCHANGED <<cacheVars, messages>> ]_vars

\* A turn that ran a tool round and then returned the content of an answer
\* that was cut off with a tool call attached.
C4_Witness ==
    /\ pc = "done"
    /\ rounds = 1
    /\ response.finish_reason = "length"
    /\ response.message.tool_calls # <<>>
    /\ reply = Text("assistant", <<"reply_cut">>)

\* A turn that raised on a tool_calls answer.
C4_RaisedOnToolCalls == pc = "raised" /\ AsksForTools

\* The JSON text of a handler's value v.
JsonOf(v) ==
    [enc |-> "json",
     lit |-> IF v.type = "dict" THEN "object"
             ELSE IF v.type = "str" THEN "string" ELSE "array",
     kind |-> v.kind, items |-> v.items]

\* The last 1 + n messages are the assistant's message of `response` and one
\* tool message per call, in call order, each with its call's id and the
\* JSON text of its call's value.
RoundAppended(msgs, before) ==
    LET tc == response.message.tool_calls
        n == Len(tc)
    IN /\ Len(msgs) = before + 1 + n
       /\ Len(raw_results) = n
       /\ msgs[before + 1] = response.message
       /\ msgs[before + 1].role = "assistant"
       /\ \A i \in 1..n :
            msgs[before + 1 + i] =
                [role |-> "tool", content |-> JsonOf(raw_results[i]),
                 tool_call_id |-> tc[i].id, tool_calls |-> <<>>]

\* C5: each tool-call round extends the conversation, before the next
\* model-service call, by the assistant's tool-call message followed by one
\* tool message per requested call, in request order, each with the
\* tool_call_id and the JSON-serialized result of its call; the messages
\* already there are kept as they are; nothing else appends to it.
C5_RoundExtendsConversation ==
    /\ [][ /\ event'.op = "extend"
              => /\ RoundAppended(messages', Len(messages))
                 /\ SubSeq(messages', 1, Len(messages)) = messages
                 /\ pc' = "send"
           /\ (event'.op = "dispatch" /\ ~event'.raised)
              => /\ raw_results' = Append(raw_results, event'.result)
                 /\ Len(raw_results') <= Len(response.message.tool_calls)
                 /\ event'.name = response.message.tool_calls[Len(raw_results')].name
           /\ messages' # messages => event'.op \in {"extend", "chat_start"}
           /\ (event'.op = "create" /\ rounds > 0)
              => RoundAppended(messages, Len(messages) - 1 - Len(response.message.tool_calls))
         ]_vars
    /\ []((pc = "tools" /\ AsksForTools) => Len(messages) >= 1)

\* A round of two calls with different results has been appended and the
\* next model-service call is due.
C5_Witness ==
    /\ pc = "send"
    /\ rounds = 1
    /\ Len(response.message.tool_calls) = 2
    /\ raw_results[1] # raw_results[2]
    /\ messages[Len(messages)].role = "tool"
    /\ messages[Len(messages)].tool_call_id = response.message.tool_calls[2].id

-----------------------------------------------------------------------------
(* Claims about tool dispatch *)

\* The latest step dispatched a tool call whose arguments parsed.
Dispatched == event.op = "dispatch" /\ JsonLoads(event.arguments).ok

\* C6: a tool call whose name is none of the three schema tools yields the
\* empty result object, whatever its argument object: nothing is raised and
\* no handler runs.
C6_UnknownToolYieldsEmptyResult ==
    (Dispatched /\ event.name \notin SchemaTools)
    => /\ ~event.raised
       /\ event.result = EmptyDict
       /\ event.ran = "none"
       /\ event.read.fetches = 0

\* C6 for the names that are neither an attribute of Me nor a module
\* global (holds).
UnboundToolYieldsEmptyResult ==
    (Dispatched /\ event.name \notin MeMethods \cup ModuleGlobals)
    => /\ ~event.raised
       /\ event.result = EmptyDict
       /\ event.ran = "none"
       /\ event.read.fetches = 0

\* C7: an add_book call with title, author and genre adds one record to
\* the store and yields a success message; one without a required field
\* adds none and yields a failure message; neither raises.
C7_AddBookInsertsRecord ==
    [][ (event'.op = "dispatch" /\ event'.name = "add_book")
        => /\ ~event'.raised
           /\ event'.result.type = "str"
           /\ IF {"title", "author", "genre"} \subseteq JsonLoads(event'.arguments).keys
              THEN store' = store + 1 /\ event'.result.kind = "add_book_success"
              ELSE store' = store /\ event'.result.kind = "add_book_failure" ]_vars

\* C8: when the database is unreachable during a fetch made by a read, the
\* error stays inside the store function and the chat turn does not raise.
C8_StoreErrorsDoNotPropagate ==
    (event.db = "down" /\ event.read.fetches > 0)
    => (~event.raised /\ ~event.read.raised /\ pc # "raised")

\* The books fetch keeps its errors inside (holds).
BooksStoreErrorsDoNotPropagate ==
    (event.db = "down" /\ event.read.fetches > 0
       /\ event.read.entry \in {"books", "get_books"})
    => /\ ~event.raised /\ pc # "raised"
       /\ event.result.items = <<>>

\* C9: a get_stats_tool call with a non-empty requested_stats list that
\* returns a statistics text returns the known names of that list, not the
\* default subset.
C9_StatsToolReturnsRequestedStats ==
    (Dispatched /\ event.name = "get_stats_tool" /\ ~event.raised
       /\ ~RequestFalsy(JsonLoads(event.arguments).requested_stats)
       /\ event.result.kind = "stats_text")
    => Range(event.result.items)
         = Range(JsonLoads(event.arguments).requested_stats.names)
             \cap all_possible_stats

-----------------------------------------------------------------------------
(* Claims about get_stats (under StatsSpec) *)

NineDefaults == all_possible_stats \ {"total_books", "total_short_stories"}

KnownOf(requested_stats) == Range(requested_stats.names) \cap all_possible_stats

\* The keys get_stats owes for a request.
KeysOwed(requested_stats, out) ==
    /\ RequestFalsy(requested_stats)
       => Range(out.keys) = NineDefaults /\ Len(out.keys) = 9
    /\ ~RequestFalsy(requested_stats)
       => Range(out.keys) = KnownOf(requested_stats)
    /\ (~RequestFalsy(requested_stats) /\ KnownOf(requested_stats) = {})
       => out.keys = <<>> /\ ~out.queried

-----------------------------------------------------------------------------
(* Claims about the two entries together *)

\* C11: a read of one cache entry, whether it hits or refreshes, leaves the
\* other entry's cached value and fetch timestamp unchanged and makes no
\* fetch other than its own entry's (at most one, none on a hit); no step
\* changes the cache duration, which stays 300 seconds.
C11_EntriesGatedIndependently ==
    /\ [][ /\ ReadsStats
              => /\ UNCHANGED <<cached_books, books_cache_timestamp>>
                 /\ event'.read.fetches <= 1
                 /\ (event'.read.fetches = 0
                       => UNCHANGED <<cached_stats, stats_cache_timestamp>>)
           /\ ReadsBooks
              => /\ UNCHANGED <<cached_stats, stats_cache_timestamp>>
                 /\ event'.read.fetches <= 1
                 /\ (event'.read.fetches = 0
                       => UNCHANGED <<cached_books, books_cache_timestamp>>)
           /\ event'.read.entry \notin {"stats", "books"} => UNCHANGED cacheVars
           /\ cache_duration_seconds' = cache_duration_seconds ]_vars
    /\ [](cache_duration_seconds = 300)

\* A books read has just refreshed its entry, 300 seconds or more after the
\* stats entry was filled, and the stats entry still holds its value and its
\* older timestamp.
C11_Witness ==
    /\ event.op = "dispatch"
    /\ event.read.entry = "books"
    /\ event.read.fetches = 1
    /\ books_cache_timestamp = now
    /\ ~cached_stats.none
    /\ cached_stats.keys # <<>>
    /\ stats_cache_timestamp # NoTime
    /\ stats_cache_timestamp < books_cache_timestamp

-----------------------------------------------------------------------------
(* Claims about malformed tool-call arguments *)

\* The argument texts of this model that are texts of the JSON grammar
\* (RFC 8259); NaN is not a JSON value.
ValidJson(text) == text \in {ArgsEmpty, ArgsRequest, ArgsBook, ArgsNoTitle}

\* No message of the round asked for by `response` is in the conversation.
RoundNotRecorded(msgs) ==
    \A i \in 1..Len(msgs) :
        /\ msgs[i] # response.message
        /\ \A j \in 1..Len(response.message.tool_calls) :
             msgs[i].tool_call_id # response.message.tool_calls[j].id

\* C12: a tool call whose arguments are not valid JSON is fatal for the
\* turn: dispatching it raises out of chat, no reply is returned, and the
\* conversation gets neither the assistant's message nor any tool result of
\* that round.
C12_InvalidJsonIsFatal ==
    [][ (event'.op = "dispatch" /\ ~ValidJson(event'.arguments))
        => /\ event'.raised
           /\ pc' = "raised"
           /\ messages' = messages
           /\ reply' = NoContent ]_vars

\* C12 as amended: a tool call whose arguments json.loads rejects is fatal
\* for the turn: dispatching it raises out of chat before any handler runs
\* for it, the turn returns no reply and makes no further model-service
\* call, and the conversation gets neither the assistant's message nor any
\* tool result of that round, though earlier calls of the round ran; a
\* round is appended only when all its arguments were parsed.
C12_RejectedArgumentsAreFatal ==
    /\ [][ /\ (event'.op = "dispatch" /\ ~JsonLoads(event'.arguments).ok)
              => /\ event'.raised
                 /\ event'.ran = "none"
                 /\ event'.read.fetches = 0
                 /\ pc' = "raised"
                 /\ messages' = messages
                 /\ reply' = NoContent
                 /\ UNCHANGED <<cacheVars, store, response>>
           /\ pc = "raised" => event'.op \in {"tick", "chat_start"}
           /\ event'.op = "extend"
              => \A j \in 1..Len(response.message.tool_calls) :
                    JsonLoads(response.message.tool_calls[j].arguments).ok ]_vars
    /\ [](pc = "raised" => reply = NoContent)
    /\ []((pc = "raised" /\ event.op = "dispatch") => RoundNotRecorded(messages))

\* A turn has raised on the second call of a round, whose arguments did not
\* parse, after the first call of the round refreshed the books entry; the
\* conversation still ends with the user's message.
C12_Witness ==
    /\ pc = "raised"
    /\ event.op = "dispatch"
    /\ ~JsonLoads(event.arguments).ok
    /\ Len(response.message.tool_calls) = 2
    /\ Len(raw_results) = 1
    /\ response.message.tool_calls[1].name = "get_books_tool"
    /\ ~cached_books.none
    /\ messages[Len(messages)].role = "user"
    /\ reply = NoContent

-----------------------------------------------------------------------------
(* Claims about concurrent turns (under RaceSpec) *)

\* The entry's value is set and its timestamp is not.
HalfUpdated(entry) == ~EntryMissing(entry) /\ EntryTimestamp(entry) = NoTime

\* C13: with two concurrent turns, no read is at the time-to-live
\* comparison while its entry's value is set and its timestamp unset, and no
\* read fails on that comparison.
C13_NoReadSeesHalfUpdatedEntry ==
    \A t \in Turns :
        /\ reader[t].pc = "compare" => ~HalfUpdated(reader[t].entry)
        /\ reader[t].pc # "type_error"

\* C13 as amended: with two concurrent turns, a read can reach the
\* comparison while its entry's value is set and its timestamp unset, and it
\* then fails; this happens only while the other turn is between the two
\* assignments of that entry's refresh and the entry's timestamp has never
\* been set: a timestamp, once set, is never unset, so no read of an entry
\* fails after the entry's first refresh has stamped it.
C13_ReadFailsOnlyDuringFirstRefresh ==
    /\ [][ /\ \A t \in Turns :
                (reader[t].pc = "compare" /\ reader'[t].pc = "type_error")
                => /\ HalfUpdated(reader[t].entry)
                   /\ \E u \in Turns \ {t} :
                        /\ reader[u].pc = "stamp"
                        /\ reader[u].entry = reader[t].entry
           /\ \A t \in Turns :
                (reader[t].pc = "compare" /\ HalfUpdated(reader[t].entry)
                   /\ reader'[t].pc # "compare")
                => reader'[t].pc = "type_error"
           /\ stats_cache_timestamp # NoTime => stats_cache_timestamp' # NoTime
           /\ books_cache_timestamp # NoTime => books_cache_timestamp' # NoTime
         ]_vars
    /\ [](\A entry \in Entries :
            HalfUpdated(entry)
            => \E u \in Turns : reader[u].pc = "stamp" /\ reader[u].entry = entry)

\* A stats read of one turn has failed on the comparison while the other
\* turn, which assigned the value, has not yet assigned the timestamp.
C13_Witness ==
    \E t \in Turns, u \in Turns :
        /\ t # u
        /\ reader[t].pc = "type_error"
        /\ reader[t].entry = "stats"
        /\ reader[u].pc = "stamp"
        /\ reader[u].entry = "stats"
        /\ HalfUpdated("stats")

====
